---- MODULE Spec2Model ----
(***************************************************************************)
(* StashKeeper (DeAliks/DiscordStashKeeper): the request lifecycle and the *)
(* per-resource priority queue kept in a Google Sheet.                     *)
(*                                                                         *)
(* The sheet is a sequence of data rows (the header row is left out, so    *)
(* data row n of the model is sheet row n + 1).  Every handler of bot.py   *)
(* is one action: asyncio runs a handler without interruption between two  *)
(* awaits, the gspread calls are synchronous, and an uncontended           *)
(* asyncio.Lock is acquired without yielding, so the sheet accesses of one *)
(* handler are one atomic step.  Work that the code hands to a new task    *)
(* (create_task) or resumes after a sleep is a separate action.            *)
(***************************************************************************)
EXTENDS Integers, Sequences, FiniteSets, TLC

\* ---------------------------------------------------------------- bounds
MaxSessions == 2
MaxQty == 1
MaxViews == 1
MaxReactions == 2
MaxSubmissions == 3
MaxApplied == 1
MaxAmount == 2

\* ------------------------------------------------------ program constants
DEFAULT_PRIORITY == 1
HIGH_PRIORITY == 2
ADMIN_PRIORITY == 3
\* an empty QueuePosition cell ("") and an absent ACTIVE_SESSIONS entry
NoPosition == 0
NoSession == 0
max_retries == 3

Users == {"u1", "u2"}
BLUE_RESOURCES == {"B1"}
PURPLE_RESOURCES == {"P1"}
Resources == BLUE_RESOURCES \cup PURPLE_RESOURCES
Grade(resource) == IF resource \in PURPLE_RESOURCES THEN "Purple" ELSE "Blue"

VARIABLES
    rows,             \* the sheet's data rows, in row order
    clock,            \* the latest RequestTimestamp handed out
    priority_users,   \* priority_users.json: user -> level
    ACTIVE_SESSIONS,  \* user -> session_id (NoSession: no entry)
    sessionCount,     \* session ids handed out so far (uuid4: always fresh)
    flows,            \* submission flows in progress (views, modals, tasks)
    agedSessions,     \* sessions 1..agedSessions were created over 120 s ago
    PENDING_REQUESTS, \* approval message ids (the row's RowID) awaiting a verifier
    reactionEvents,   \* message id -> queued on_reaction_add events
    approveSleeping,  \* message id -> on_reaction_add handlers in their 30 s sleep
    actionViews,      \* RequestActionView snapshots staff hold
    statusButtons,    \* rows with a live StatusView cancel button
    lastOp,           \* the last handler that ran: what it did and answered
    sheets_lock,      \* asyncio.Lock: TRUE while a task holds it
    lockWaiters,      \* the lock's queue of waiting tasks, first come first
    lockTasks,        \* task -> the handler it runs and where it stands
    appendCalls       \* sheet.append_row calls made by the latest append_row

vars == <<rows, clock, priority_users, ACTIVE_SESSIONS, sessionCount, flows,
          agedSessions,
          PENDING_REQUESTS, reactionEvents, approveSleeping,
          actionViews, statusButtons, lastOp,
          sheets_lock, lockWaiters, lockTasks, appendCalls>>

storeVars == <<rows, clock>>
sessionVars == <<ACTIVE_SESSIONS, sessionCount, flows, agedSessions>>
approvalVars == <<PENDING_REQUESTS, reactionEvents, approveSleeping>>
viewVars == <<actionViews, statusButtons>>
lockVars == <<sheets_lock, lockWaiters, lockTasks>>

\* the rows the sheet can come to hold under the bounds
RowNumbers ==
    1..((IF MaxSubmissions > MaxSessions THEN MaxSubmissions ELSE MaxSessions)
           * (MaxApplied + 1))

\* ------------------------------------------------------- Priority Directory
get_user_priority(pu, user) ==
    IF user \in DOMAIN pu THEN pu[user] ELSE DEFAULT_PRIORITY

\* a set that starts from an empty directory instead of the loaded one
set_multiple_users_priority_fresh(pu, user_ids, priority) ==
    [u \in user_ids |-> priority]

\* load_priority_users, the assignments, save_priority_users: pu is the
\* content of the priority file, text keys and integer levels, which
\* json.dump and the {str(k): int(v)} of the load give back as they were
set_multiple_users_priority(pu, user_ids, priority) ==
    [u \in (DOMAIN pu) \cup user_ids |-> IF u \in user_ids THEN priority ELSE pu[u]]

remove_multiple_users_priority(pu, user_ids) ==
    [u \in (DOMAIN pu) \ user_ids |-> pu[u]]

clear_all_priorities == [u \in {} |-> DEFAULT_PRIORITY]

\* ------------------------------------------------------- Row Store Adapter
\* a row that awaits approval whatever the path that builds it
NewRow_awaiting(user, resource, qty, priority, now, status, approval, rowid) ==
    [DiscordID |-> user, ResourceGrade |-> Grade(resource), ResourceName |-> resource,
     Quantity |-> qty, IssuedQuantity |-> 0, Remaining |-> qty,
     PriorityLevel |-> priority, RequestTimestamp |-> now,
     QueuePosition |-> NoPosition, Status |-> status, RowID |-> rowid,
     PurpleApproval |-> "awaiting", ApproverID |-> "", Notes |-> ""]

\* the row both submission paths build (bot.py:392-396, 576-580)
NewRow(user, resource, qty, priority, now, status, approval, rowid) ==
    [DiscordID |-> user, ResourceGrade |-> Grade(resource), ResourceName |-> resource,
     Quantity |-> qty, IssuedQuantity |-> 0, Remaining |-> qty,
     PriorityLevel |-> priority, RequestTimestamp |-> now,
     QueuePosition |-> NoPosition, Status |-> status, RowID |-> rowid,
     PurpleApproval |-> approval, ApproverID |-> "", Notes |-> ""]

RECURSIVE append_attempt(_, _, _, _, _)

\* an append_row that gives up quietly: the loop ends without the raise
append_attempt_silent(rs, values, failures, applied, attempt) ==
    IF attempt > max_retries
    THEN [rows |-> rs, raised |-> FALSE, calls |-> max_retries]
    ELSE IF attempt > failures
    THEN [rows |-> Append(rs, values), raised |-> FALSE, calls |-> attempt]
    ELSE append_attempt(IF attempt <= applied THEN Append(rs, values) ELSE rs,
                        values, failures, applied, attempt + 1)

\* the loop of append_row from its attempt-th pass on (for attempt in
\* range(max_retries)).  The sheet.append_row call of pass k raises iff
\* k <= failures; a call that raises has left no row, or (k <= applied) the
\* store had written the row before the call failed.  Every exception is
\* caught and the loop goes on; the first call that returns ends the method;
\* after the last pass RuntimeError is raised.
append_attempt(rs, values, failures, applied, attempt) ==
    IF attempt > max_retries
    THEN [rows |-> rs, raised |-> TRUE, calls |-> max_retries]
    ELSE IF attempt > failures
    THEN [rows |-> Append(rs, values), raised |-> FALSE, calls |-> attempt]
    ELSE append_attempt(IF attempt <= applied THEN Append(rs, values) ELSE rs,
                        values, failures, applied, attempt + 1)

\* append_row: the rows afterwards, whether it raised, and the calls made
append_row(rs, values, failures, applied) ==
    append_attempt(rs, values, failures, applied, 1)

\* first row whose RowID matches, or 0 (None)
get_row_number_by_rowid(rs, rowid) ==
    IF \E n \in 1..Len(rs) : rs[n].RowID = rowid
    THEN CHOOSE n \in 1..Len(rs) :
            /\ rs[n].RowID = rowid
            /\ \A m \in 1..Len(rs) : rs[m].RowID = rowid => n <= m
    ELSE 0

\* get_row with the numeric cells converted to int, as list_user_requests does
get_row_numeric(rs, row_number) ==
    IF row_number \in 1..Len(rs)
    THEN [found |-> TRUE, cells |-> "int", row |-> rs[row_number]]
    ELSE [found |-> FALSE, cells |-> "int", row |-> <<>>]

\* get_row: None for a row out of range; otherwise the row's cells, each of
\* them text as sheet.row_values returns them
get_row(rs, row_number) ==
    IF row_number \in 1..Len(rs)
    THEN [found |-> TRUE, cells |-> "str", row |-> rs[row_number]]
    ELSE [found |-> FALSE, cells |-> "str", row |-> <<>>]

\* get_row's try block for any argument a caller may pass (None, a value
\* that is no int, an int) against a store that answers or not: the two
\* argument checks, then sheet.row_values, which raises APIError when the
\* store does not answer, then the None for a row without values
get_row_try(rs, arg, store_up) ==
    IF arg.kind = "None"
    THEN [raised |-> FALSE, found |-> FALSE]
    ELSE IF arg.kind # "int" \/ arg.val < 1
    THEN [raised |-> FALSE, found |-> FALSE]
    ELSE IF ~store_up
    THEN [raised |-> TRUE, found |-> FALSE]
    ELSE [raised |-> FALSE, found |-> get_row(rs, arg.val).found]

\* except clauses that log and raise again
get_row_except_reraises(result) == result

\* get_row's two except clauses: log, return None
get_row_except(result) ==
    IF result.raised THEN [raised |-> FALSE, found |-> FALSE] ELSE result

\* Python: int - int subtracts, str - int raises TypeError
PySub(cells, a, b) ==
    IF cells = "int" THEN [raised |-> FALSE, val |-> a - b]
    ELSE [raised |-> TRUE, val |-> 0]

Max(a, b) == IF a >= b THEN a ELSE b
Min(a, b) == IF a <= b THEN a ELSE b

\* update_row: one update_cell per key, in the dict's order
update_row(rs, row_number, updates) ==
    [rs EXCEPT ![row_number] =
        [f \in DOMAIN rs[row_number] |->
            IF f \in DOMAIN updates THEN updates[f] ELSE rs[row_number][f]]]

\* the rows of every resource taken into the sort
Candidates_any_resource(rs, resource_name) ==
    {n \in 1..Len(rs) : rs[n].Status \in {"active", "pending"}}

\* recompute_queue_positions: the rows the sort takes in
Candidates(rs, resource_name) ==
    {n \in 1..Len(rs) : /\ rs[n].ResourceName = resource_name
                        /\ rs[n].Status \in {"active", "pending"}}

\* the sort with the requester's priority looked up in the directory at the
\* time of the sort
SortsBeforeByDirectory(rs, a, b) ==
    LET pa == get_user_priority(priority_users, rs[a].DiscordID)
        pb == get_user_priority(priority_users, rs[b].DiscordID)
    IN \/ pa > pb
       \/ /\ pa = pb
          /\ \/ rs[a].RequestTimestamp < rs[b].RequestTimestamp
             \/ /\ rs[a].RequestTimestamp = rs[b].RequestTimestamp
                /\ a < b

\* the sort with the priority key not negated: low priorities first
SortsBeforeAscending(rs, a, b) ==
    \/ rs[a].PriorityLevel < rs[b].PriorityLevel
    \/ /\ rs[a].PriorityLevel = rs[b].PriorityLevel
       /\ \/ rs[a].RequestTimestamp < rs[b].RequestTimestamp
          \/ /\ rs[a].RequestTimestamp = rs[b].RequestTimestamp
             /\ a < b

\* a sort that is not stable: rows with equal keys share their place
SortsBeforeUnstable(rs, a, b) ==
    \/ rs[a].PriorityLevel > rs[b].PriorityLevel
    \/ /\ rs[a].PriorityLevel = rs[b].PriorityLevel
       /\ rs[a].RequestTimestamp < rs[b].RequestTimestamp

\* candidates.sort(key=(-priority, timestamp)), a stable sort: a comes before b
SortsBefore(rs, a, b) ==
    \/ rs[a].PriorityLevel > rs[b].PriorityLevel
    \/ /\ rs[a].PriorityLevel = rs[b].PriorityLevel
       /\ \/ rs[a].RequestTimestamp < rs[b].RequestTimestamp
          \/ /\ rs[a].RequestTimestamp = rs[b].RequestTimestamp
             /\ a < b

\* enumerate(candidates, start=1): the place of row n in the sorted list
SortedPosition(rs, cands, n) ==
    1 + Cardinality({m \in cands : SortsBefore(rs, m, n)})

\* a recompute over a table read before the last row was appended
recompute_queue_positions_stale(rs, resource_name) ==
    LET cands == Candidates(rs, resource_name) \ {Len(rs)}
    IN [n \in 1..Len(rs) |->
          IF n \in cands
          THEN [rs[n] EXCEPT !.QueuePosition = SortedPosition(rs, cands, n)]
          ELSE rs[n]]

recompute_queue_positions(rs, resource_name) ==
    LET cands == Candidates(rs, resource_name)
    IN [n \in 1..Len(rs) |->
          IF n \in cands
          THEN [rs[n] EXCEPT !.QueuePosition = SortedPosition(rs, cands, n)]
          ELSE rs[n]]

\* recompute_queue_positions with update_cell raising for the row numbers in
\* lost: the error is logged, the cell stays as it was, the loop goes on and
\* the method returns as ever
recompute_queue_positions_writes(rs, resource_name, lost) ==
    LET full == recompute_queue_positions(rs, resource_name)
    IN [n \in 1..Len(rs) |-> IF n \in lost THEN rs[n] ELSE full[n]]

\* cell writes one recompute makes
RecomputeWrites(rs, resource_name) == Cardinality(Candidates(rs, resource_name))

\* ------------------------------------------------- issue management methods
\* update_issued_quantity(row_number, issued_quantity, completed): the rows
\* afterwards, whether it returned True, and the cell writes it made
update_issued_quantity(rs, row_number, issued_quantity, completed) ==
    LET got == get_row(rs, row_number)
        remaining == PySub(got.cells, got.row.Quantity, issued_quantity)
        updated == update_row(rs, row_number,
                      IF completed
                      THEN [IssuedQuantity |-> issued_quantity,
                            Remaining |-> Max(0, remaining.val),
                            Status |-> "completed", QueuePosition |-> NoPosition]
                      ELSE [IssuedQuantity |-> issued_quantity,
                            Remaining |-> Max(0, remaining.val)])
    IN IF ~got.found THEN [rows |-> rs, success |-> FALSE, writes |-> 0]
       ELSE IF remaining.raised THEN [rows |-> rs, success |-> FALSE, writes |-> 0]
       ELSE IF completed
       THEN [rows |-> recompute_queue_positions(updated, got.row.ResourceName),
             success |-> TRUE,
             writes |-> 4 + RecomputeWrites(updated, got.row.ResourceName)]
       ELSE [rows |-> updated, success |-> TRUE, writes |-> 2]

complete_request(rs, row_number) ==
    LET got == get_row(rs, row_number)
        updated == update_row(rs, row_number,
                      [Status |-> "completed", QueuePosition |-> NoPosition,
                       IssuedQuantity |-> got.row.Quantity, Remaining |-> 0])
    IN IF ~got.found THEN [rows |-> rs, success |-> FALSE, writes |-> 0]
       ELSE [rows |-> recompute_queue_positions(updated, got.row.ResourceName),
             success |-> TRUE,
             writes |-> 4 + RecomputeWrites(updated, got.row.ResourceName)]

\* the cells complete_request hands to update_row, in the dict's order
CompleteOrder == <<"Status", "QueuePosition", "IssuedQuantity", "Remaining">>
CompleteCells == Len(CompleteOrder)

\* complete_request with update_row's update_cell raising after `cells` cells
\* have been written: the cells written stay, and complete_request's except
\* logs the error and returns False, without the recompute.  With all the
\* cells written it is complete_request.
complete_request_cells(rs, row_number, cells) ==
    LET got == get_row(rs, row_number)
        updates == [Status |-> "completed", QueuePosition |-> NoPosition,
                    IssuedQuantity |-> got.row.Quantity, Remaining |-> 0]
        done == {CompleteOrder[i] : i \in 1..cells}
    IN IF cells >= CompleteCells \/ ~got.found
       THEN complete_request(rs, row_number)
       ELSE [rows |-> update_row(rs, row_number, [k \in done |-> updates[k]]),
             success |-> FALSE, writes |-> cells]

\* ------------------------------------------------------------ QueueManager
approve_purple_request(rs, row_number, approver_id) ==
    LET updated == update_row(rs, row_number,
                      [PurpleApproval |-> "approved", ApproverID |-> approver_id,
                       Status |-> "active"])
        resource == updated[row_number].ResourceName
    IN [rows |-> recompute_queue_positions(updated, resource),
        writes |-> 3 + RecomputeWrites(updated, resource)]

\* deny_purple_request: four cells written, QueuePosition not among them,
\* and no recompute
deny_purple_request(rs, row_number, approver_id, reason) ==
    [rows |-> update_row(rs, row_number,
                 [PurpleApproval |-> "denied", ApproverID |-> approver_id,
                  Status |-> "cancelled", Notes |-> reason]),
     writes |-> 4]

\* a cancel that zeroes the requested quantity as well
cancel_request_by_row_zeroes_quantity(rs, row_number, requester_id) ==
    LET updated == update_row(rs, row_number,
                      [Status |-> "cancelled", Notes |-> requester_id,
                       QueuePosition |-> NoPosition, Quantity |-> 0,
                       IssuedQuantity |-> 0, Remaining |-> 0])
        resource == updated[row_number].ResourceName
    IN [rows |-> recompute_queue_positions(updated, resource),
        writes |-> 6 + RecomputeWrites(updated, resource)]

\* a cancel that leaves the QueuePosition cell as it is
cancel_request_by_row_keeps_position(rs, row_number, requester_id) ==
    LET updated == update_row(rs, row_number,
                      [Status |-> "cancelled", Notes |-> requester_id,
                       IssuedQuantity |-> 0, Remaining |-> 0])
        resource == updated[row_number].ResourceName
    IN [rows |-> recompute_queue_positions(updated, resource),
        writes |-> 4 + RecomputeWrites(updated, resource)]

cancel_request_by_row(rs, row_number, requester_id) ==
    LET updated == update_row(rs, row_number,
                      [Status |-> "cancelled", Notes |-> requester_id,
                       QueuePosition |-> NoPosition,
                       IssuedQuantity |-> 0, Remaining |-> 0])
        resource == updated[row_number].ResourceName
    IN [rows |-> recompute_queue_positions(updated, resource),
        writes |-> 5 + RecomputeWrites(updated, resource)]

\* the cells cancel_request_by_row hands to update_row, in the dict's order
CancelOrder == <<"Status", "Notes", "QueuePosition", "IssuedQuantity", "Remaining">>
CancelCells == Len(CancelOrder)

\* cancel_request_by_row with update_row's update_cell raising after `cells`
\* cells have been written: update_row raises at once, the cells written
\* stay, and cancel_request_by_row logs and raises again without its
\* recompute.  With all the cells written it is cancel_request_by_row.
cancel_request_by_row_cells(rs, row_number, requester_id, cells) ==
    LET updates == [Status |-> "cancelled", Notes |-> requester_id,
                    QueuePosition |-> NoPosition,
                    IssuedQuantity |-> 0, Remaining |-> 0]
        done == {CancelOrder[i] : i \in 1..cells}
        full == cancel_request_by_row(rs, row_number, requester_id)
    IN IF cells >= CancelCells
       THEN [rows |-> full.rows, writes |-> full.writes, raised |-> FALSE]
       ELSE [rows |-> update_row(rs, row_number, [k \in done |-> updates[k]]),
             writes |-> cells, raised |-> TRUE]

\* list_user_requests: the user's rows a StatusView gets a button for
list_user_requests(rs, discord_id) ==
    {n \in 1..Len(rs) : /\ rs[n].DiscordID = discord_id
                        /\ rs[n].Status \in {"active", "pending", "completed"}}

\* get_active_requests: the rows the queue management views are built from
get_active_requests(rs) == {n \in 1..Len(rs) : rs[n].Status = "active"}

\* ----------------------------------------------------------------- history
\* what the handler of the last step did: the row it acted on and that row's
\* status when it started, the cell writes it made, whether it held
\* sheets_lock while it accessed the sheet, and its answer to the actor.  A
\* step that does not reach the sheet leaves Idle.
Op(name, row, pre, writes, locked, resp) ==
    [op |-> name, row |-> row, pre |-> pre, writes |-> writes,
     locked |-> locked, resp |-> resp]

Idle == Op("none", 0, "none", 0, FALSE, "none")

StatusOf(rs, n) == IF n \in 1..Len(rs) THEN rs[n].Status ELSE "none"

\* ------------------------------------------------------------- sheets_lock
MaxLockTasks == 3
LockTasks == 1..MaxLockTasks

\* the handlers with an `async with sheets_lock` block
LockHandlers == {"process_blue_request", "wait_for_screenshot_and_register",
                 "on_reaction_add", "status_cancel", "cmd_status",
                 "confirm_button", "cmd_queue"}

\* the ways out of a handler's block: its end, an exception of a sheet call,
\* and on_reaction_add's return after reporting that the row is not found
LockPaths(handler) ==
    IF handler = "on_reaction_add"
    THEN {"success", "store_exception", "not_found"}
    ELSE {"success", "store_exception"}

LockTask(handler, pc, path) == [handler |-> handler, pc |-> pc, path |-> path]

Init ==
    /\ rows = <<>>
    /\ clock = 1
    /\ priority_users = clear_all_priorities
    /\ ACTIVE_SESSIONS = [u \in Users |-> NoSession]
    /\ sessionCount = 0
    /\ flows = {}
    /\ agedSessions = 0
    /\ PENDING_REQUESTS = {}
    /\ reactionEvents = [m \in RowNumbers |-> 0]
    /\ approveSleeping = [m \in RowNumbers |-> 0]
    /\ actionViews = {}
    /\ statusButtons = {}
    /\ lastOp = Idle
    /\ sheets_lock = FALSE
    /\ lockWaiters = <<>>
    /\ lockTasks = [t \in LockTasks |-> LockTask("-", "idle", "-")]
    /\ appendCalls = 0

\* ------------------------------------------------------- priority commands
cmd_set_priority(members) ==
    /\ priority_users' = set_multiple_users_priority(priority_users, members, HIGH_PRIORITY)
    /\ UNCHANGED <<storeVars, sessionVars, approvalVars, viewVars>>
    /\ lastOp' = Idle

    /\ UNCHANGED <<lockVars, appendCalls>>
cmd_remove_priority(members) ==
    /\ priority_users' = remove_multiple_users_priority(priority_users, members)
    /\ UNCHANGED <<storeVars, sessionVars, approvalVars, viewVars>>
    /\ lastOp' = Idle

    /\ UNCHANGED <<lockVars, appendCalls>>
cmd_clear_priority ==
    /\ priority_users' = clear_all_priorities
    /\ UNCHANGED <<storeVars, sessionVars, approvalVars, viewVars>>
    /\ lastOp' = Idle

    /\ UNCHANGED <<lockVars, appendCalls>>
\* --------------------------------------------------------- submission flow
Flow(user, session_id, pc, resource, qty) ==
    [user |-> user, session_id |-> session_id, pc |-> pc,
     resource |-> resource, qty |-> qty]

SessionIsOf(f) == ACTIVE_SESSIONS[f.user] = f.session_id

\* loop.time() - created_at > 120 of cmd_request: session ids are handed out
\* in the order of creation
SessionExpired(session_id) == session_id <= agedSessions

\* a cmd_request that never looks at the age of the session it finds
cmd_request_no_expiry(user) ==
    /\ IF ACTIVE_SESSIONS[user] # NoSession
       THEN /\ lastOp' = Idle
            /\ UNCHANGED sessionVars
       ELSE /\ sessionCount' = sessionCount + 1
            /\ ACTIVE_SESSIONS' = [ACTIVE_SESSIONS EXCEPT ![user] = sessionCount + 1]
            /\ flows' = flows \cup {Flow(user, sessionCount + 1, "select", "-", 0)}
            /\ lastOp' = Idle
            /\ UNCHANGED agedSessions
    /\ UNCHANGED <<storeVars, priority_users, approvalVars, viewVars>>

    /\ UNCHANGED <<lockVars, appendCalls>>
\* !запрос: with a session open that is not older than 120 s the command is
\* refused; an older one is deleted first.  Then a new session under a fresh
\* uuid and its ResourceSelect menu (the views and tasks of the deleted
\* session stay as they are).
cmd_request(user) ==
    /\ IF /\ ACTIVE_SESSIONS[user] # NoSession
          /\ ~SessionExpired(ACTIVE_SESSIONS[user])
       THEN /\ lastOp' = Idle
            /\ UNCHANGED sessionVars
       ELSE /\ sessionCount' = sessionCount + 1
            /\ ACTIVE_SESSIONS' = [ACTIVE_SESSIONS EXCEPT ![user] = sessionCount + 1]
            /\ flows' = flows \cup {Flow(user, sessionCount + 1, "select", "-", 0)}
            /\ lastOp' = IF ACTIVE_SESSIONS[user] # NoSession
                          THEN Op("open", 0, "none", 0, FALSE, "replaced")
                          ELSE Idle
            /\ UNCHANGED agedSessions
    /\ UNCHANGED <<storeVars, priority_users, approvalVars, viewVars>>

    /\ UNCHANGED <<lockVars, appendCalls>>
\* 120 s have gone by since the oldest session not yet that old was created
time_passes ==
    /\ agedSessions < sessionCount
    /\ agedSessions' = agedSessions + 1
    /\ lastOp' = Idle
    /\ UNCHANGED <<storeVars, priority_users, ACTIVE_SESSIONS, sessionCount, flows,
                   approvalVars, viewVars>>

    /\ UNCHANGED <<lockVars, appendCalls>>
\* a cleanup_session whose sleep is over and that deletes nothing
cleanup_session_keeps(user, session_id) ==
    /\ session_id \in 1..sessionCount /\ SessionExpired(session_id)
    /\ ACTIVE_SESSIONS[user] = session_id
    /\ lastOp' = Op("cleanup", 0, "none", 0, FALSE, "removed")
    /\ UNCHANGED <<storeVars, priority_users, sessionVars, approvalVars, viewVars>>

    /\ UNCHANGED <<lockVars, appendCalls>>
\* cleanup_session(user_id, session_id) after its 120 s sleep: the session is
\* deleted if it is still the one the timer was started for (otherwise the
\* task ends without a trace)
cleanup_session(user, session_id) ==
    /\ session_id \in 1..sessionCount /\ SessionExpired(session_id)
    /\ ACTIVE_SESSIONS[user] = session_id
    /\ ACTIVE_SESSIONS' = [ACTIVE_SESSIONS EXCEPT ![user] = NoSession]
    /\ lastOp' = Op("cleanup", 0, "none", 0, FALSE, "removed")
    /\ UNCHANGED <<storeVars, priority_users, sessionCount, flows, agedSessions,
                   approvalVars, viewVars>>

    /\ UNCHANGED <<lockVars, appendCalls>>
\* ResourceSelect.on_timeout: 120 s without a selection.  The menu stops
\* working; the session is deleted if it is still the menu's own.
on_timeout(f) ==
    /\ f \in flows /\ f.pc = "select"
    /\ SessionExpired(f.session_id)
    /\ flows' = flows \ {f}
    /\ ACTIVE_SESSIONS' = IF SessionIsOf(f)
                          THEN [ACTIVE_SESSIONS EXCEPT ![f.user] = NoSession]
                          ELSE ACTIVE_SESSIONS
    /\ lastOp' = Idle
    /\ UNCHANGED <<storeVars, priority_users, sessionCount, agedSessions,
                   approvalVars, viewVars>>

    /\ UNCHANGED <<lockVars, appendCalls>>
\* ResourceSelect.select_callback: the user picks a resource of the menu
select_callback(f, resource) ==
    /\ f \in flows /\ f.pc = "select"
    /\ IF ACTIVE_SESSIONS[f.user] = NoSession
       THEN /\ flows' = flows \ {f}
            /\ lastOp' = Idle
       ELSE /\ flows' = (flows \ {f}) \cup
                        {Flow(f.user, f.session_id, "modal", resource, 0)}
            /\ lastOp' = Idle
    /\ UNCHANGED <<storeVars, priority_users, ACTIVE_SESSIONS, sessionCount,
                   agedSessions, approvalVars, viewVars>>

    /\ UNCHANGED <<lockVars, appendCalls>>
\* the decimal text of the numbers a form can hold
IntText == [n \in (0 - 1)..MaxAmount |-> ToString(n)]

\* int() that reads every text as the number 1
int_of_lenient(text) ==
    IF \E n \in DOMAIN IntText : IntText[n] = text
    THEN [raised |-> FALSE, val |-> CHOOSE n \in DOMAIN IntText : IntText[n] = text]
    ELSE [raised |-> FALSE, val |-> 1]

\* int(text.strip()): the number the text spells, or ValueError
int_of(text) ==
    IF \E n \in DOMAIN IntText : IntText[n] = text
    THEN [raised |-> FALSE, val |-> CHOOSE n \in DOMAIN IntText : IntText[n] = text]
    ELSE [raised |-> TRUE, val |-> 0]

\* RequestModal.on_submit with the text the user typed as the quantity: the
\* ValueError of int() and the one raised for qty <= 0 end in the same
\* except, which answers and returns
on_submit(f, text) ==
    /\ f \in flows /\ f.pc = "modal"
    /\ IF ~SessionIsOf(f)
       THEN /\ flows' = flows \ {f}
            /\ lastOp' = Idle
       ELSE IF int_of(text).raised \/ int_of(text).val <= 0
       THEN /\ flows' = flows \ {f}
            /\ lastOp' = Idle
       ELSE /\ flows' = (flows \ {f}) \cup
                  {Flow(f.user, f.session_id,
                        IF Grade(f.resource) = "Purple" THEN "shot_wait" ELSE "blue_task",
                        f.resource, int_of(text).val)}
            /\ lastOp' = Idle
    /\ UNCHANGED <<storeVars, priority_users, ACTIVE_SESSIONS, sessionCount,
                   agedSessions, approvalVars, viewVars>>

    /\ UNCHANGED <<lockVars, appendCalls>>
\* process_blue_request up to its 30 s sleep: the session check, the row with
\* the priority of this moment, and under sheets_lock the append, the
\* recompute and the read of the position it reports.  An append that raises
\* leaves the lock and ends in the handler's except: the error answer, and
\* the user's session deleted.
process_blue_request(f, now, failures, applied, lost) ==
    /\ f \in flows /\ f.pc = "blue_task"
    /\ IF ~SessionIsOf(f)
       THEN /\ flows' = flows \ {f}
            /\ lastOp' = Op("submit", 0, "none", 0, FALSE, "expired")
            /\ UNCHANGED <<storeVars, ACTIVE_SESSIONS, appendCalls>>
       ELSE LET rowid == Len(rows) + 1
                row == NewRow(f.user, f.resource, f.qty,
                              get_user_priority(priority_users, f.user), now,
                              "active", "n/a", rowid)
                appended == append_row(rows, row, failures, applied)
                written == Len(appended.rows) - Len(rows)
                after == recompute_queue_positions_writes(appended.rows, f.resource,
                                                          lost)
                rownum == get_row_number_by_rowid(after, rowid)
            IN /\ appendCalls' = appended.calls
               /\ clock' = IF written > 0 THEN now ELSE clock
               /\ IF appended.raised
                  THEN /\ rows' = appended.rows
                       /\ flows' = flows \ {f}
                       /\ ACTIVE_SESSIONS' =
                             [ACTIVE_SESSIONS EXCEPT ![f.user] = NoSession]
                       /\ lastOp' = Op("submit", 0, "none", written, TRUE, "failed")
                  ELSE /\ rows' = after
                       /\ flows' = (flows \ {f}) \cup
                             {Flow(f.user, f.session_id, "blue_sleep", f.resource, f.qty)}
                       /\ lastOp' = Op("submit", rownum, "none",
                                  written + RecomputeWrites(appended.rows, f.resource)
                                     - Cardinality(lost \cap Candidates(appended.rows,
                                                                       f.resource)),
                                  TRUE, "ok")
                       /\ UNCHANGED ACTIVE_SESSIONS
    /\ UNCHANGED <<priority_users, sessionCount, agedSessions, approvalVars, viewVars>>
    /\ UNCHANGED lockVars

\* process_blue_request after its sleep: the user's session entry is deleted
process_blue_request_wake(f) ==
    /\ f \in flows /\ f.pc = "blue_sleep"
    /\ flows' = flows \ {f}
    /\ ACTIVE_SESSIONS' = [ACTIVE_SESSIONS EXCEPT ![f.user] = NoSession]
    /\ lastOp' = Idle
    /\ UNCHANGED <<storeVars, priority_users, sessionCount, agedSessions,
                   approvalVars, viewVars>>

    /\ UNCHANGED <<lockVars, appendCalls>>
\* wait_for_screenshot_and_register: registered is FALSE on the paths that
\* give up (timeout, 'отмена', no image, read or upload failure); otherwise
\* the pending row is appended under sheets_lock, without a recompute, and
\* the approval message is posted.  An append that raises ends in the error
\* answer.  Every path deletes the user's session.
wait_for_screenshot_and_register(f, registered, now, failures, applied) ==
    /\ f \in flows /\ f.pc = "shot_wait"
    /\ flows' = flows \ {f}
    /\ ACTIVE_SESSIONS' = [ACTIVE_SESSIONS EXCEPT ![f.user] = NoSession]
    /\ IF ~registered
       THEN /\ lastOp' = Op("submit_rare", 0, "none", 0, FALSE, "cancelled")
            /\ UNCHANGED <<storeVars, approvalVars, appendCalls>>
       ELSE LET rowid == Len(rows) + 1
                row == NewRow(f.user, f.resource, f.qty,
                              get_user_priority(priority_users, f.user), now,
                              "pending", "awaiting", rowid)
                appended == append_row(rows, row, failures, applied)
                written == Len(appended.rows) - Len(rows)
            IN /\ appendCalls' = appended.calls
               /\ rows' = appended.rows
               /\ clock' = IF written > 0 THEN now ELSE clock
               /\ IF appended.raised
                  THEN /\ lastOp' = Op("submit_rare", 0, "none", written, TRUE, "failed")
                       /\ UNCHANGED approvalVars
                  ELSE /\ PENDING_REQUESTS' = PENDING_REQUESTS \cup {rowid}
                       /\ lastOp' = Op("submit_rare",
                                       get_row_number_by_rowid(appended.rows, rowid),
                                       "none", written, TRUE, "ok")
                       /\ UNCHANGED <<reactionEvents, approveSleeping>>
    /\ UNCHANGED <<priority_users, sessionCount, agedSessions, viewVars>>
    /\ UNCHANGED lockVars

\* ------------------------------------------------------------------ approval
\* the approval message is in the channel from its registration until the
\* first on_reaction_add that approves deletes it
ApprovalMessageExists(msg) == msg \in PENDING_REQUESTS /\ approveSleeping[msg] = 0

\* a verifier adds the check mark to an approval message that still exists:
\* discord dispatches one on_reaction_add task per reaction (reactions of
\* bots and of members without the verifier role return at once)
verifier_reacts(msg) ==
    /\ ApprovalMessageExists(msg)
    /\ reactionEvents' = [reactionEvents EXCEPT ![msg] = @ + 1]
    /\ UNCHANGED <<storeVars, priority_users, sessionVars, PENDING_REQUESTS,
                   approveSleeping, viewVars>>
    /\ lastOp' = Idle

    /\ UNCHANGED <<lockVars, appendCalls>>
\* on_reaction_add up to its 30 s sleep: under sheets_lock the row is looked
\* up by its RowID and approved; then the notifications go out and the
\* approval message is deleted.  With the store down (store_up FALSE) the
\* lookup raises: the lock is left and the handler's except logs the error.
on_reaction_add(msg, approver_id, store_up) ==
    /\ reactionEvents[msg] > 0
    /\ reactionEvents' = [reactionEvents EXCEPT ![msg] = @ - 1]
    /\ IF msg \notin PENDING_REQUESTS
       THEN /\ lastOp' = Op("approve", 0, "none", 0, FALSE, "none")
            /\ UNCHANGED <<storeVars, approveSleeping>>
       ELSE IF ~store_up
       THEN /\ lastOp' = Op("approve", 0, "none", 0, TRUE, "none")
            /\ UNCHANGED <<storeVars, approveSleeping>>
       ELSE LET rownum == get_row_number_by_rowid(rows, msg)
                done == approve_purple_request(rows, rownum, approver_id)
            IN IF rownum = 0
               THEN /\ lastOp' = Op("approve", 0, "none", 0, TRUE, "not_found")
                    /\ UNCHANGED <<storeVars, approveSleeping>>
               ELSE /\ rows' = done.rows
                    /\ approveSleeping' = [approveSleeping EXCEPT ![msg] = @ + 1]
                    /\ lastOp' = Op("approve", rownum, rows[rownum].Status,
                                    done.writes, TRUE, "approved")
                    /\ UNCHANGED clock
    /\ UNCHANGED <<priority_users, sessionVars, PENDING_REQUESTS, viewVars>>

    /\ UNCHANGED <<lockVars, appendCalls>>
\* on_reaction_add after its sleep: del PENDING_REQUESTS[msg.id] (a KeyError
\* of the second of two handlers is caught and logged)
on_reaction_add_wake(msg) ==
    /\ approveSleeping[msg] > 0
    /\ approveSleeping' = [approveSleeping EXCEPT ![msg] = @ - 1]
    /\ PENDING_REQUESTS' = PENDING_REQUESTS \ {msg}
    /\ UNCHANGED <<storeVars, priority_users, sessionVars,
                   reactionEvents, viewVars>>
    /\ lastOp' = Idle

    /\ UNCHANGED <<lockVars, appendCalls>>
\* QueueManager.deny_purple_request on a request awaiting approval.  bot.py
\* has no handler that calls it: this is the call the method is written for.
deny_request(row_number, approver_id) ==
    /\ row_number \in 1..Len(rows)
    /\ rows[row_number].Status = "pending"
    /\ LET done == deny_purple_request(rows, row_number, approver_id, "denied")
       IN /\ rows' = done.rows
          /\ lastOp' = Op("deny", row_number, "pending", done.writes, FALSE, "denied")
    /\ UNCHANGED <<clock, priority_users, sessionVars, approvalVars, viewVars>>

    /\ UNCHANGED <<lockVars, appendCalls>>
\* ------------------------------------------------------------ !статус view
\* cmd_status: a StatusView with one cancel button per listed request
cmd_status(user) ==
    /\ statusButtons' = statusButtons \cup list_user_requests(rows, user)
    /\ lastOp' = Idle
    /\ UNCHANGED <<storeVars, priority_users, sessionVars, approvalVars, actionViews>>

    /\ UNCHANGED <<lockVars, appendCalls>>
\* the StatusView of a user times out (120 s): its buttons stop working
status_view_timeout(user) ==
    /\ \E n \in statusButtons : rows[n].DiscordID = user
    /\ statusButtons' = {n \in statusButtons : rows[n].DiscordID # user}
    /\ UNCHANGED <<storeVars, priority_users, sessionVars, approvalVars,
                   actionViews>>
    /\ lastOp' = Idle

    /\ UNCHANGED <<lockVars, appendCalls>>
\* StatusView._make_callback: the owner presses the cancel button of a row;
\* of the cancel's cells, `cells` are written before a write fails (all of
\* them when none does).  A cancel that raises is answered with the error.
status_cancel_callback(rownum, presser, cells) ==
    /\ rownum \in statusButtons
    /\ LET got == get_row(rows, rownum)
           done == cancel_request_by_row_cells(rows, rownum, presser, cells)
       IN IF got.row.DiscordID # presser
          THEN /\ lastOp' = Op("cancel", rownum, got.row.Status, 0, FALSE,
                               "not_owner")
               /\ UNCHANGED rows
          ELSE /\ rows' = done.rows
               /\ lastOp' = Op("cancel", rownum, got.row.Status, done.writes, TRUE,
                               IF done.raised THEN "failed" ELSE "cancelled")
    /\ UNCHANGED <<clock, priority_users, sessionVars, approvalVars, viewVars>>

    /\ UNCHANGED <<lockVars, appendCalls>>
\* ------------------------------------------------------ !очередь management
\* int(x.get("QueuePosition", 999)) of cmd_queue's sort
QueueSortable(rs) == \A n \in get_active_requests(rs) : rs[n].QueuePosition # NoPosition

ActionView(rs, n) ==
    [row_number |-> n, remaining |-> rs[n].Remaining,
     issued |-> rs[n].IssuedQuantity, total |-> rs[n].Quantity]

\* cmd_queue by an administrator and QueueManagementView.select_callback: a
\* RequestActionView holding the selected active request as it is listed now
cmd_queue_select(rownum) ==
    /\ rownum \in get_active_requests(rows)
    /\ QueueSortable(rows)
    /\ actionViews' = actionViews \cup {ActionView(rows, rownum)}
    /\ lastOp' = Idle
    /\ UNCHANGED <<storeVars, priority_users, sessionVars, approvalVars, statusButtons>>

    /\ UNCHANGED <<lockVars, appendCalls>>
\* the view times out (300 s)
action_view_timeout(v) ==
    /\ v \in actionViews
    /\ actionViews' = actionViews \ {v}
    /\ UNCHANGED <<storeVars, priority_users, sessionVars, approvalVars,
                   statusButtons>>
    /\ lastOp' = Idle

    /\ UNCHANGED <<lockVars, appendCalls>>
\* issue_button, IssueQuantityModal.on_submit and _issue_quantity, with the
\* text typed as the amount; a text that is no number (ValueError) and an
\* amount outside 1..max_quantity are both answered and nothing else happens
issue_quantity(v, text) ==
    /\ v \in actionViews
    /\ LET qty == int_of(text)
           quantity == qty.val
           got == get_row(rows, v.row_number)
           current_issued == got.row.IssuedQuantity
           total == got.row.Quantity
           new_issued == Min(current_issued + quantity, total)
           completed == new_issued >= total
           done == update_issued_quantity(rows, v.row_number, new_issued, completed)
           pre == StatusOf(rows, v.row_number)
       IN IF v.remaining <= 0
          THEN /\ lastOp' = Op("issue", v.row_number, pre, 0, FALSE, "nothing_to_issue")
               /\ UNCHANGED rows
          ELSE IF qty.raised \/ quantity <= 0 \/ quantity > v.remaining
          THEN /\ lastOp' = Op("issue", v.row_number, pre, 0, FALSE, "invalid_qty")
               /\ UNCHANGED rows
          ELSE IF ~got.found
          THEN /\ lastOp' = Op("issue", v.row_number, pre, 0, FALSE, "not_found")
               /\ UNCHANGED rows
          ELSE /\ rows' = done.rows
               /\ lastOp' = Op("issue", v.row_number, pre, done.writes, FALSE,
                               IF done.success THEN "ok" ELSE "update_failed")
    /\ UNCHANGED <<clock, priority_users, sessionVars, approvalVars, viewVars>>

    /\ UNCHANGED <<lockVars, appendCalls>>
\* unissue_button, UnissueQuantityModal.on_submit and _unissue_quantity
unissue_quantity(v, text) ==
    /\ v \in actionViews
    /\ LET qty == int_of(text)
           quantity == qty.val
           got == get_row(rows, v.row_number)
           new_issued == Max(0, got.row.IssuedQuantity - quantity)
           done == update_issued_quantity(rows, v.row_number, new_issued, FALSE)
           pre == StatusOf(rows, v.row_number)
       IN IF v.issued <= 0
          THEN /\ lastOp' = Op("return", v.row_number, pre, 0, FALSE, "nothing_to_return")
               /\ UNCHANGED rows
          ELSE IF qty.raised \/ quantity <= 0 \/ quantity > v.issued
          THEN /\ lastOp' = Op("return", v.row_number, pre, 0, FALSE, "invalid_qty")
               /\ UNCHANGED rows
          ELSE IF ~got.found
          THEN /\ lastOp' = Op("return", v.row_number, pre, 0, FALSE, "not_found")
               /\ UNCHANGED rows
          ELSE /\ rows' = done.rows
               /\ lastOp' = Op("return", v.row_number, pre, done.writes, FALSE,
                               IF done.success THEN "ok" ELSE "update_failed")
    /\ UNCHANGED <<clock, priority_users, sessionVars, approvalVars, viewVars>>

    /\ UNCHANGED <<lockVars, appendCalls>>
\* RequestActionView.complete_button; of the completion's cells, `cells` are
\* written before a write fails (all of them when none does)
complete_button(v, cells) ==
    /\ v \in actionViews
    /\ LET done == complete_request_cells(rows, v.row_number, cells)
       IN /\ rows' = done.rows
          /\ lastOp' = Op("complete", v.row_number, StatusOf(rows, v.row_number),
                          done.writes, FALSE,
                          IF done.success THEN "ok" ELSE "failed")
    /\ UNCHANGED <<clock, priority_users, sessionVars, approvalVars, viewVars>>

    /\ UNCHANGED <<lockVars, appendCalls>>
\* RequestActionView.cancel_button and ConfirmCancelView.confirm_button
confirm_button(v, admin) ==
    /\ v \in actionViews
    /\ LET done == cancel_request_by_row(rows, v.row_number, admin)
       IN /\ rows' = done.rows
          /\ lastOp' = Op("cancel", v.row_number, StatusOf(rows, v.row_number),
                          done.writes, TRUE, "cancelled")
    /\ UNCHANGED <<clock, priority_users, sessionVars, approvalVars, viewVars>>

    /\ UNCHANGED <<lockVars, appendCalls>>
\* ------------------------------------------------- the lock and its blocks
\* __aexit__ on an exception that forgets the release
aexit_leaks(path) == path = "store_exception"

\* `async with`: __aexit__ releases the lock on every way out of the block;
\* the value is the lock's state afterwards
aexit(path) == FALSE

\* the block of `handler` run by task t that has the lock.  The sheet calls
\* are synchronous: the block runs to its end in one go, except where
\* on_reaction_add awaits msg.channel.send before its return.
run_block(t, handler, path) ==
    IF handler = "on_reaction_add" /\ path = "not_found"
    THEN /\ sheets_lock' = TRUE
         /\ lockTasks' = [lockTasks EXCEPT ![t] = LockTask(handler, "sending", path)]
    ELSE /\ sheets_lock' = aexit(path)
         /\ lockTasks' = [lockTasks EXCEPT ![t] = LockTask(handler, "idle", path)]

\* task t reaches `async with sheets_lock` in a handler: Lock.acquire takes a
\* free lock with no waiter at once, otherwise the task joins the queue
lock_enter(t, handler, path) ==
    /\ lockTasks[t].pc = "idle"
    /\ IF ~sheets_lock /\ lockWaiters = <<>>
       THEN /\ run_block(t, handler, path)
            /\ UNCHANGED lockWaiters
       ELSE /\ lockWaiters' = Append(lockWaiters, t)
            /\ lockTasks' = [lockTasks EXCEPT ![t] = LockTask(handler, "waiting", "-")]
            /\ UNCHANGED sheets_lock
    /\ UNCHANGED <<storeVars, priority_users, sessionVars, approvalVars, viewVars,
                   lastOp, appendCalls>>

\* the first waiter, woken by the release, takes the lock and runs its block
lock_wakeup(t, path) ==
    /\ lockTasks[t].pc = "waiting"
    /\ ~sheets_lock /\ lockWaiters # <<>> /\ Head(lockWaiters) = t
    /\ lockWaiters' = Tail(lockWaiters)
    /\ run_block(t, lockTasks[t].handler, path)
    /\ UNCHANGED <<storeVars, priority_users, sessionVars, approvalVars, viewVars,
                   lastOp, appendCalls>>

\* msg.channel.send of on_reaction_add's not-found branch is over (sent or
\* raised): the return leaves the block
send_returns(t) ==
    /\ lockTasks[t].pc = "sending"
    /\ sheets_lock' = aexit(lockTasks[t].path)
    /\ lockTasks' = [lockTasks EXCEPT ![t] = LockTask(lockTasks[t].handler, "idle",
                                                      lockTasks[t].path)]
    /\ UNCHANGED <<storeVars, priority_users, sessionVars, approvalVars, viewVars,
                   lastOp, lockWaiters, appendCalls>>

\* ------------------------------------------------------------ specification
Admin == "admin"
Verifier == "verifier"
Quantities == 0..MaxQty
\* what a user may type into a quantity field
QuantityTexts == {IntText[n] : n \in Quantities} \cup {"abc"}
\* the members an administrator names in !set_priority and !remove_priority
PriorityMembers == {{"u1"}}
InMenus == {f \in flows : f.pc \in {"select", "modal"}}
RECURSIVE SumTo(_, _)
SumTo(f, n) == IF n = 0 THEN 0 ELSE f[n] + SumTo(f, n - 1)
ReactionsInFlight ==
    SumTo(reactionEvents, Cardinality(RowNumbers)) +
    SumTo(approveSleeping, Cardinality(RowNumbers))
LiveViews == Cardinality(actionViews) + (IF statusButtons = {} THEN 0 ELSE 1)
Timestamps == {clock + 1}

\* the quantities typed as numbers; the relations below that are about the
\* forms also draw texts that are no numbers
NumberTexts == {IntText[n] : n \in Quantities}

Next ==
    \/ \E members \in PriorityMembers : cmd_set_priority(members)
    \/ \E members \in PriorityMembers : cmd_remove_priority(members)
    \/ cmd_clear_priority
    \/ \E user \in Users :
          sessionCount < MaxSessions /\ InMenus = {} /\ cmd_request(user)
    \/ \E f \in flows, resource \in Resources : select_callback(f, resource)
    \/ \E f \in flows, text \in NumberTexts : on_submit(f, text)
    \/ \E f \in flows, now \in Timestamps : process_blue_request(f, now, 0, 0, {})
    \/ \E f \in flows : process_blue_request_wake(f)
    \/ \E f \in flows, registered \in BOOLEAN, now \in Timestamps :
          wait_for_screenshot_and_register(f, registered, now, 0, 0)
    \/ \E msg \in RowNumbers :
          ReactionsInFlight < MaxReactions /\ verifier_reacts(msg)
    \/ \E msg \in RowNumbers : on_reaction_add(msg, Verifier, TRUE)
    \/ \E msg \in RowNumbers : on_reaction_add_wake(msg)
    \/ \E user \in Users : LiveViews < MaxViews /\ cmd_status(user)
    \/ \E user \in Users : status_view_timeout(user)
    \/ \E rownum \in statusButtons :
          status_cancel_callback(rownum, rows[rownum].DiscordID, CancelCells)
    \/ \E rownum \in RowNumbers :
          LiveViews < MaxViews /\ cmd_queue_select(rownum)
    \/ \E v \in actionViews : action_view_timeout(v)
    \/ \E v \in actionViews, text \in NumberTexts : issue_quantity(v, text)
    \/ \E v \in actionViews, text \in NumberTexts : unissue_quantity(v, text)
    \/ \E v \in actionViews : complete_button(v, CompleteCells)
    \/ \E v \in actionViews : confirm_button(v, Admin)

Spec == Init /\ [][Next]_vars

\* the queue under submissions and staff management alone (no verifier
\* reacts, nobody opens !статус), with room for one more submission
QueueNext ==
    \/ \E members \in PriorityMembers : cmd_set_priority(members)
    \/ \E members \in PriorityMembers : cmd_remove_priority(members)
    \/ cmd_clear_priority
    \/ \E user \in Users :
          sessionCount < MaxSubmissions /\ InMenus = {} /\ cmd_request(user)
    \/ \E f \in flows, resource \in Resources : select_callback(f, resource)
    \/ \E f \in flows, text \in QuantityTexts : on_submit(f, text)
    \/ \E f \in flows, now \in Timestamps : process_blue_request(f, now, 0, 0, {})
    \/ \E f \in flows : process_blue_request_wake(f)
    \/ \E f \in flows, registered \in BOOLEAN, now \in Timestamps :
          wait_for_screenshot_and_register(f, registered, now, 0, 0)
    \/ \E rownum \in RowNumbers :
          LiveViews < MaxViews /\ cmd_queue_select(rownum)
    \/ \E v \in actionViews : action_view_timeout(v)
    \/ \E v \in actionViews, text \in QuantityTexts : issue_quantity(v, text)
    \/ \E v \in actionViews, text \in QuantityTexts : unissue_quantity(v, text)
    \/ \E v \in actionViews : complete_button(v, CompleteCells)
    \/ \E v \in actionViews : confirm_button(v, Admin)

QueueSpec == Init /\ [][QueueNext]_vars

\* rare requests between registration and the verifiers' verdict: submissions,
\* approvals by reaction, and denials
ApprovalNext ==
    \/ \E user \in Users :
          sessionCount < MaxSubmissions /\ InMenus = {} /\ cmd_request(user)
    \/ \E f \in flows, resource \in Resources : select_callback(f, resource)
    \/ \E f \in flows, text \in QuantityTexts : on_submit(f, text)
    \/ \E f \in flows, now \in Timestamps : process_blue_request(f, now, 0, 0, {})
    \/ \E f \in flows : process_blue_request_wake(f)
    \/ \E f \in flows, registered \in BOOLEAN, now \in Timestamps :
          wait_for_screenshot_and_register(f, registered, now, 0, 0)
    \/ \E msg \in RowNumbers :
          ReactionsInFlight < MaxReactions /\ verifier_reacts(msg)
    \/ \E msg \in RowNumbers : on_reaction_add(msg, Verifier, TRUE)
    \/ \E msg \in RowNumbers : on_reaction_add_wake(msg)
    \/ \E row_number \in RowNumbers : deny_request(row_number, Verifier)

ApprovalSpec == Init /\ [][ApprovalNext]_vars

\* the session store over time: sessions are opened, age, are used by their
\* menus, forms and tasks, and are cleaned up by their timers
MaxOpened == 3
SessionIds == 1..MaxOpened

SessionNext ==
    \/ \E user \in Users : sessionCount < MaxOpened /\ cmd_request(user)
    \/ time_passes
    \/ \E user \in Users, session_id \in SessionIds : cleanup_session(user, session_id)
    \/ \E f \in flows : on_timeout(f)
    \/ \E f \in flows, resource \in Resources : select_callback(f, resource)
    \/ \E f \in flows, text \in QuantityTexts : on_submit(f, text)
    \/ \E f \in flows, now \in Timestamps : process_blue_request(f, now, 0, 0, {})
    \/ \E f \in flows : process_blue_request_wake(f)
    \/ \E f \in flows, registered \in BOOLEAN, now \in Timestamps :
          wait_for_screenshot_and_register(f, registered, now, 0, 0)

SessionSpec == Init /\ [][SessionNext]_vars

\* the event loop runs every task whose sleep is over: time goes on, and each
\* cleanup_session timer fires once its 120 s are up.  Nothing is assumed of
\* the users: a menu or a form may stay untouched forever.
SessionFairness ==
    /\ WF_vars(time_passes)
    /\ \A user \in Users, session_id \in SessionIds :
          WF_vars(cleanup_session(user, session_id))

SessionFairSpec == SessionSpec /\ SessionFairness

\* submissions and approvals against a store that may refuse calls
MaxFailures == 3
Failures == 0..MaxFailures
\* of the calls that fail, those the store had applied
Applied(failures) == 0..Min(Min(failures, max_retries), MaxApplied)

FailureNext ==
    \/ \E user \in Users :
          sessionCount < MaxSessions /\ InMenus = {} /\ cmd_request(user)
    \/ \E f \in flows, resource \in Resources : select_callback(f, resource)
    \/ \E f \in flows, text \in QuantityTexts : on_submit(f, text)
    \/ \E f \in flows, now \in Timestamps, failures \in Failures :
          \E applied \in Applied(failures) :
             process_blue_request(f, now, failures, applied, {})
    \/ \E f \in flows : process_blue_request_wake(f)
    \/ \E f \in flows, registered \in BOOLEAN, now \in Timestamps,
          failures \in Failures :
          \E applied \in Applied(failures) :
             wait_for_screenshot_and_register(f, registered, now, failures, applied)
    \/ \E msg \in RowNumbers :
          ReactionsInFlight < MaxReactions /\ verifier_reacts(msg)
    \/ \E msg \in RowNumbers, store_up \in BOOLEAN :
          on_reaction_add(msg, Verifier, store_up)
    \/ \E msg \in RowNumbers : on_reaction_add_wake(msg)

FailureSpec == Init /\ [][FailureNext]_vars

\* what users and staff type into the quantity fields, with amounts above
\* what a request can hold
AmountTexts == {IntText[n] : n \in DOMAIN IntText} \cup {"abc", ""}

ValidationNext ==
    \/ \E user \in Users :
          sessionCount < MaxSessions /\ InMenus = {} /\ cmd_request(user)
    \/ \E f \in flows, resource \in Resources : select_callback(f, resource)
    \/ \E f \in flows, text \in AmountTexts : on_submit(f, text)
    \/ \E f \in flows, now \in Timestamps : process_blue_request(f, now, 0, 0, {})
    \/ \E f \in flows : process_blue_request_wake(f)
    \/ \E f \in flows, registered \in BOOLEAN, now \in Timestamps :
          wait_for_screenshot_and_register(f, registered, now, 0, 0)
    \/ \E msg \in RowNumbers :
          ReactionsInFlight < MaxReactions /\ verifier_reacts(msg)
    \/ \E msg \in RowNumbers : on_reaction_add(msg, Verifier, TRUE)
    \/ \E msg \in RowNumbers : on_reaction_add_wake(msg)
    \/ \E rownum \in RowNumbers :
          LiveViews < MaxViews /\ cmd_queue_select(rownum)
    \/ \E v \in actionViews : action_view_timeout(v)
    \/ \E v \in actionViews, text \in AmountTexts : issue_quantity(v, text)
    \/ \E v \in actionViews, text \in AmountTexts : unissue_quantity(v, text)
    \/ \E v \in actionViews : complete_button(v, CompleteCells)

ValidationSpec == Init /\ [][ValidationNext]_vars

\* every operation on the requests: submission, approval, denial, issue,
\* return, completion and cancellation
RequestsNext ==
    \/ \E user \in Users :
          sessionCount < MaxSessions /\ InMenus = {} /\ cmd_request(user)
    \/ \E f \in flows, resource \in Resources : select_callback(f, resource)
    \/ \E f \in flows, text \in QuantityTexts : on_submit(f, text)
    \/ \E f \in flows, now \in Timestamps : process_blue_request(f, now, 0, 0, {})
    \/ \E f \in flows : process_blue_request_wake(f)
    \/ \E f \in flows, registered \in BOOLEAN, now \in Timestamps :
          wait_for_screenshot_and_register(f, registered, now, 0, 0)
    \/ \E msg \in RowNumbers :
          ReactionsInFlight < MaxReactions /\ verifier_reacts(msg)
    \/ \E msg \in RowNumbers : on_reaction_add(msg, Verifier, TRUE)
    \/ \E msg \in RowNumbers : on_reaction_add_wake(msg)
    \/ \E row_number \in RowNumbers : deny_request(row_number, Verifier)
    \/ \E rownum \in RowNumbers :
          LiveViews < MaxViews /\ cmd_queue_select(rownum)
    \/ \E v \in actionViews : action_view_timeout(v)
    \/ \E v \in actionViews, text \in QuantityTexts : issue_quantity(v, text)
    \/ \E v \in actionViews, text \in QuantityTexts : unissue_quantity(v, text)
    \/ \E v \in actionViews : complete_button(v, CompleteCells)
    \/ \E v \in actionViews : confirm_button(v, Admin)

RequestsSpec == Init /\ [][RequestsNext]_vars

\* the arguments get_row may be called with
RowArgs ==
    {[kind |-> "None", val |-> 0], [kind |-> "str", val |-> 1],
     [kind |-> "float", val |-> 1]}
       \cup {[kind |-> "int", val |-> n] : n \in {0 - 1, 0} \cup RowNumbers}

\* a call of SheetsAdapter.get_row, and what the caller gets
get_row_call(arg, store_up) ==
    /\ LET result == get_row_except(get_row_try(rows, arg, store_up))
       IN lastOp' = Op("get_row", IF arg.kind = "int" THEN arg.val ELSE 0, "none",
                       0, FALSE,
                       IF result.raised THEN "raised"
                       ELSE IF result.found THEN "fields" ELSE "null")
    /\ UNCHANGED <<storeVars, priority_users, sessionVars, approvalVars, viewVars,
                   lockVars, appendCalls>>

\* row lookups between submissions, against a store that may not answer
LookupNext ==
    \/ \E user \in Users :
          sessionCount < MaxSessions /\ InMenus = {} /\ cmd_request(user)
    \/ \E f \in flows, resource \in Resources : select_callback(f, resource)
    \/ \E f \in flows, text \in QuantityTexts : on_submit(f, text)
    \/ \E f \in flows, now \in Timestamps : process_blue_request(f, now, 0, 0, {})
    \/ \E f \in flows : process_blue_request_wake(f)
    \/ \E f \in flows, registered \in BOOLEAN, now \in Timestamps :
          wait_for_screenshot_and_register(f, registered, now, 0, 0)
    \/ \E arg \in RowArgs, store_up \in BOOLEAN : get_row_call(arg, store_up)

LookupSpec == Init /\ [][LookupNext]_vars

\* the Priority Directory under every call of its interface, with the
\* submissions that read it
Levels == {DEFAULT_PRIORITY, HIGH_PRIORITY, ADMIN_PRIORITY}
UserSets == (SUBSET Users) \ {{}}

call_set_multiple_users_priority(user_ids, priority) ==
    /\ priority_users' = set_multiple_users_priority(priority_users, user_ids, priority)
    /\ lastOp' = Op("set_priority", 0, "none", 0, FALSE, "ok")
    /\ UNCHANGED <<storeVars, sessionVars, approvalVars, viewVars, lockVars,
                   appendCalls>>

call_remove_multiple_users_priority(user_ids) ==
    /\ priority_users' = remove_multiple_users_priority(priority_users, user_ids)
    /\ lastOp' = Op("remove_priority", 0, "none", 0, FALSE, "ok")
    /\ UNCHANGED <<storeVars, sessionVars, approvalVars, viewVars, lockVars,
                   appendCalls>>

call_clear_all_priorities ==
    /\ priority_users' = clear_all_priorities
    /\ lastOp' = Op("clear_priority", 0, "none", 0, FALSE, "ok")
    /\ UNCHANGED <<storeVars, sessionVars, approvalVars, viewVars, lockVars,
                   appendCalls>>

PriorityNext ==
    \/ \E user_ids \in UserSets, priority \in Levels :
          call_set_multiple_users_priority(user_ids, priority)
    \/ \E user_ids \in UserSets : call_remove_multiple_users_priority(user_ids)
    \/ call_clear_all_priorities
    \/ \E user \in Users :
          sessionCount < MaxSessions /\ InMenus = {} /\ cmd_request(user)
    \/ \E f \in flows, resource \in BLUE_RESOURCES : select_callback(f, resource)
    \/ \E f \in flows, text \in QuantityTexts : on_submit(f, text)
    \/ \E f \in flows, now \in Timestamps : process_blue_request(f, now, 0, 0, {})
    \/ \E f \in flows : process_blue_request_wake(f)

PrioritySpec == Init /\ [][PriorityNext]_vars

\* the queue under submissions and changes of priority, with clock
\* readings that may repeat: two requests may carry the same timestamp
TieTimestamps == {clock, clock + 1}

RecomputeNext ==
    \/ \E members \in PriorityMembers : cmd_set_priority(members)
    \/ \E members \in PriorityMembers : cmd_remove_priority(members)
    \/ \E user \in Users :
          sessionCount < MaxSubmissions /\ InMenus = {} /\ cmd_request(user)
    \/ \E f \in flows, resource \in Resources : select_callback(f, resource)
    \/ \E f \in flows, text \in QuantityTexts : on_submit(f, text)
    \/ \E f \in flows, now \in TieTimestamps : process_blue_request(f, now, 0, 0, {})
    \/ \E f \in flows : process_blue_request_wake(f)
    \/ \E f \in flows, registered \in BOOLEAN, now \in TieTimestamps :
          wait_for_screenshot_and_register(f, registered, now, 0, 0)

RecomputeSpec == Init /\ [][RecomputeNext]_vars

\* submissions, cancellations and completions against a store whose cell
\* writes may fail: lost is the set of rows whose position write of the
\* recompute raises, cells the number of cells a cancel or a completion
\* writes before a write raises
WriteFailureNext ==
    \/ \E user \in Users :
          sessionCount < MaxSessions /\ InMenus = {} /\ cmd_request(user)
    \/ \E f \in flows, resource \in Resources : select_callback(f, resource)
    \/ \E f \in flows, text \in QuantityTexts : on_submit(f, text)
    \/ \E f \in flows, now \in Timestamps, lost \in SUBSET (1..(Len(rows) + 1)) :
          process_blue_request(f, now, 0, 0, lost)
    \/ \E f \in flows : process_blue_request_wake(f)
    \/ \E f \in flows, registered \in BOOLEAN, now \in Timestamps :
          wait_for_screenshot_and_register(f, registered, now, 0, 0)
    \/ \E user \in Users : LiveViews < MaxViews /\ cmd_status(user)
    \/ \E user \in Users : status_view_timeout(user)
    \/ \E rownum \in statusButtons, cells \in 0..CancelCells :
          status_cancel_callback(rownum, rows[rownum].DiscordID, cells)
    \/ \E rownum \in RowNumbers :
          LiveViews < MaxViews /\ cmd_queue_select(rownum)
    \/ \E v \in actionViews : action_view_timeout(v)
    \/ \E v \in actionViews, cells \in 0..CompleteCells : complete_button(v, cells)

WriteFailureSpec == Init /\ [][WriteFailureNext]_vars

\* the handlers' use of sheets_lock
LockNext ==
    \/ \E t \in LockTasks, handler \in LockHandlers :
          \E path \in LockPaths(handler) : lock_enter(t, handler, path)
    \/ \E t \in LockTasks :
          \E path \in LockPaths(lockTasks[t].handler) : lock_wakeup(t, path)
    \/ \E t \in LockTasks : send_returns(t)

LockSpec == Init /\ [][LockNext]_vars

\* the event loop runs a task whose wait is over: the woken waiter, and the
\* handler whose send has come back
LockFairness ==
    \A t \in LockTasks :
        /\ WF_vars(\E path \in {"success", "store_exception", "not_found"} :
                      lock_wakeup(t, path))
        /\ WF_vars(send_returns(t))

LockFairSpec == LockSpec /\ LockFairness

\* ------------------------------------------------------------------ claims
Terminal == {"completed", "cancelled"}

ActiveRows(rs, resource_name) ==
    {n \in 1..Len(rs) : /\ rs[n].ResourceName = resource_name
                        /\ rs[n].Status = "active"}

PositionsOf(rs, ns) == {rs[n].QueuePosition : n \in ns}

\* C1: for every resource, the queue positions held by its Active rows are
\* exactly 1..n, n the number of those rows, also when the resource has
\* PendingApproval rows.  (The positions Active rows hold are the ones the
\* latest recompute of their resource wrote.)
C1_ActivePositionsAreDense ==
    \A r \in Resources :
        PositionsOf(rows, ActiveRows(rows, r)) = 1..Cardinality(ActiveRows(rows, r))

\* C2: of two Active rows of one resource the one with the higher priority
\* has the smaller position, and with equal priorities the one submitted
\* earlier has the smaller position.
C2_PriorityThenTimeOrder ==
    \A r \in Resources : \A a, b \in ActiveRows(rows, r) :
        /\ rows[a].PriorityLevel > rows[b].PriorityLevel
              => rows[a].QueuePosition < rows[b].QueuePosition
        /\ (/\ rows[a].PriorityLevel = rows[b].PriorityLevel
            /\ rows[a].RequestTimestamp < rows[b].RequestTimestamp)
              => rows[a].QueuePosition < rows[b].QueuePosition

\* C2's scenario: A (priority 1) submitted before B (priority 2) to the same
\* resource; B's submission has just put B at position 1 and A at position 2
C2_LaterHighPriorityIsFirst ==
    /\ lastOp.op = "submit" /\ lastOp.resp = "ok"
    /\ \E r \in Resources : \E a, b \in ActiveRows(rows, r) :
          /\ b = lastOp.row
          /\ rows[a].PriorityLevel = DEFAULT_PRIORITY
          /\ rows[b].PriorityLevel = HIGH_PRIORITY
          /\ rows[a].RequestTimestamp < rows[b].RequestTimestamp
          /\ rows[b].QueuePosition = 1
          /\ rows[a].QueuePosition = 2

\* C3: once the status of a request is Completed or Cancelled no step changes
\* it again.
C3_TerminalIsFinal ==
    [][\A n \in 1..Len(rows) :
          rows[n].Status \in Terminal => rows'[n].Status = rows[n].Status]_vars

\* C4: an approval of a request that is already Active answers "already
\* handled" and writes no cell.
C4_SecondApproveIsRejected ==
    (lastOp.op = "approve" /\ lastOp.pre = "active")
        => (lastOp.resp = "already_handled" /\ lastOp.writes = 0)

\* C5: for every request, issued + remaining = requested and
\* 0 <= issued <= requested.
C5_QuantityConservation ==
    \A n \in 1..Len(rows) :
        /\ rows[n].IssuedQuantity + rows[n].Remaining = rows[n].Quantity
        /\ 0 <= rows[n].IssuedQuantity
        /\ rows[n].IssuedQuantity <= rows[n].Quantity

\* C6: a handler that changes the sheet (submit, approve, cancel, issue,
\* return, complete, with the recompute each triggers) holds sheets_lock: no
\* cell is written without the lock.
C6_MutationsHoldTheLock == lastOp.writes > 0 => lastOp.locked

\* every field of a request but its queue position
SameRequest(old, new) == [new EXCEPT !.QueuePosition = old.QueuePosition] = old

\* C7: every Common submission that goes through, in whatever order the
\* concurrent handlers run, adds its row to the rows already stored, loses
\* none of them, and leaves the Active rows of its resource (the new row and
\* the rows queued before) with exactly the positions 1..n; the Active rows of
\* every Common resource hold 1..n whenever the handlers have finished.
C7_ConcurrentSubmissionsAllQueued ==
    [][/\ \A r \in BLUE_RESOURCES :
             PositionsOf(rows', ActiveRows(rows', r))
                = 1..Cardinality(ActiveRows(rows', r))
       /\ (lastOp'.op = "submit" /\ lastOp'.resp = "ok")
             => /\ Len(rows') = Len(rows) + 1
                /\ lastOp'.row = Len(rows')
                /\ rows'[Len(rows')].Status = "active"
                /\ \A n \in 1..Len(rows) : SameRequest(rows[n], rows'[n])
                /\ LET r == rows'[Len(rows')].ResourceName
                   IN PositionsOf(rows', ActiveRows(rows', r))
                         = 1..Cardinality(ActiveRows(rows', r))]_vars

\* two submissions to one Common resource were in flight together (the
\* session opened first appended last) behind a row queued before: all
\* three rows are Active and hold 1..3
C7_TwoConcurrentBehindOne ==
    /\ lastOp.op = "submit" /\ lastOp.resp = "ok" /\ lastOp.row = 3
    /\ \E r \in BLUE_RESOURCES : ActiveRows(rows, r) = {1, 2, 3}
    /\ \E f, g \in flows :
          /\ f.pc = "blue_sleep" /\ g.pc = "blue_sleep"
          /\ f.user = rows[3].DiscordID /\ g.user = rows[2].DiscordID
          /\ f.session_id < g.session_id

\* C8: a PendingApproval request holds no queue position.
C8_PendingHasNoPosition ==
    \A n \in 1..Len(rows) :
        rows[n].Status = "pending" => rows[n].QueuePosition = NoPosition

\* C9: a Rare submission is created PendingApproval; an issue on it before
\* its approval is rejected as invalid-state and writes nothing; once it is
\* approved and Active an issue of a valid quantity succeeds.
C9_RareIssueAfterApproval ==
    /\ (lastOp.op = "submit_rare" /\ lastOp.resp = "ok")
          => rows[lastOp.row].Status = "pending"
    /\ (lastOp.op = "issue" /\ lastOp.pre = "pending")
          => (lastOp.resp = "invalid_state" /\ lastOp.writes = 0)
    /\ (/\ lastOp.op = "issue" /\ lastOp.pre = "active"
        /\ rows[lastOp.row].PurpleApproval = "approved"
        /\ lastOp.resp \notin {"nothing_to_issue", "invalid_qty"})
          => lastOp.resp = "ok"

C11_FullIssueCompletes ==
    [][\A v \in actionViews : \A quantity \in 1..MaxQty :
          (/\ issue_quantity(v, IntText[quantity])
           /\ rows[v.row_number].Status = "active"
           /\ quantity <= v.remaining
           /\ quantity = rows[v.row_number].Quantity
                            - rows[v.row_number].IssuedQuantity)
          => /\ lastOp'.resp = "ok"
             /\ rows'[v.row_number].Status = "completed"
             /\ rows'[v.row_number].QueuePosition = NoPosition
             /\ rows'[v.row_number].IssuedQuantity = rows[v.row_number].Quantity
             /\ rows'[v.row_number].Remaining = 0
             /\ LET r == rows[v.row_number].ResourceName
                IN PositionsOf(rows', ActiveRows(rows', r))
                      = 1..Cardinality(ActiveRows(rows', r))]_vars

\* C12: right after a cancel of an Active or PendingApproval request has gone
\* through, the request's row reads Cancelled with an empty queue position:
\* the recompute the cancel triggers gives it no position again.
C12_CancelClearsPosition ==
    (/\ lastOp.op = "cancel" /\ lastOp.resp = "cancelled"
     /\ lastOp.pre \in {"active", "pending"})
        => /\ rows[lastOp.row].Status = "cancelled"
           /\ rows[lastOp.row].QueuePosition = NoPosition

\* an Active request has just been cancelled and the recompute has renumbered
\* another Active request of its resource
C12_CancelledAheadOfAnother ==
    /\ lastOp.op = "cancel" /\ lastOp.resp = "cancelled" /\ lastOp.pre = "active"
    /\ \E m \in ActiveRows(rows, rows[lastOp.row].ResourceName) :
          m # lastOp.row /\ rows[m].QueuePosition = 1

\* C13: every Completed or Cancelled row has an empty queue position (the
\* model's states are the states between handlers: no operation in progress).
C13_TerminalHasNoPosition ==
    \A n \in 1..Len(rows) :
        rows[n].Status \in Terminal => rows[n].QueuePosition = NoPosition

\* C14: !запрос by a user whose session is not older than 120 s leaves the
\* session store and the session's flow as they are; otherwise (no session, or
\* one older than 120 s) the user gets a session under an id that no session
\* and no menu, form or task of an earlier session carries, and the other
\* users' sessions stay.  (The store is keyed by user: one session per user.)
C14_OpenRefusedOrFresh ==
    [][\A user \in Users :
          cmd_request(user) =>
            IF /\ ACTIVE_SESSIONS[user] # NoSession
               /\ ACTIVE_SESSIONS[user] > agedSessions
            THEN UNCHANGED <<ACTIVE_SESSIONS, flows>>
            ELSE /\ ACTIVE_SESSIONS'[user] # NoSession
                 /\ ACTIVE_SESSIONS'[user] \notin
                       {ACTIVE_SESSIONS[u] : u \in Users}
                          \cup {f.session_id : f \in flows}
                 /\ \A u \in Users \ {user} :
                       ACTIVE_SESSIONS'[u] = ACTIVE_SESSIONS[u]]_vars

\* a session older than 120 s has just been replaced while its menu is still up
C14_ExpiredSessionReplaced ==
    /\ lastOp.op = "open" /\ lastOp.resp = "replaced"
    /\ \E f \in flows : /\ f.pc = "select"
                        /\ ACTIVE_SESSIONS[f.user] > f.session_id

\* C15: a resource selection, a form submission or a background registration
\* made for a session that is not the user's current one (or with no session
\* open) ends that flow with the session-expired answer, writes nothing to
\* the sheet and leaves the session store as it is.
C15_StaleStepRejected ==
    [][\A f \in flows :
          (/\ ~SessionIsOf(f)
           /\ \/ \E resource \in Resources : select_callback(f, resource)
              \/ \E qty \in 1..MaxQty : on_submit(f, IntText[qty])
              \/ \E now \in Timestamps : process_blue_request(f, now, 0, 0, {})
              \/ \E now \in Timestamps :
                    wait_for_screenshot_and_register(f, TRUE, now, 0, 0))
          => /\ rows' = rows
             /\ ACTIVE_SESSIONS' = ACTIVE_SESSIONS
             /\ flows' = flows \ {f}]_vars

\* C16: every session put into the session store is later removed from it
\* (by the end of its submission, an abort, an error path or its timer),
\* given that time goes on and the timers' tasks get to run.
C16_SessionEventuallyDestroyed ==
    \A user \in Users : \A session_id \in SessionIds :
        (ACTIVE_SESSIONS[user] = session_id) ~> (ACTIVE_SESSIONS[user] # session_id)

\* the timer has just removed a session whose form was never sent in
C16_TimerRemovedIdleSession ==
    /\ lastOp.op = "cleanup" /\ lastOp.resp = "removed"
    /\ \E f \in flows : /\ f.pc = "modal"
                        /\ ACTIVE_SESSIONS[f.user] = NoSession
                        /\ f.session_id <= agedSessions

\* C17: the PriorityLevel a row is appended with is its requester's directory
\* value at that step; no step changes the PriorityLevel of a row already in
\* the sheet, and a step that edits the directory leaves the sheet alone;
\* after every step the Active rows of a resource stand in the order of their
\* stored priorities and, among equal ones, of their timestamps.
C17_PriorityIsSnapshot ==
    [][/\ Len(rows') >= Len(rows)
       /\ \A n \in 1..Len(rows) : rows'[n].PriorityLevel = rows[n].PriorityLevel
       /\ \A n \in (Len(rows) + 1)..Len(rows') :
             rows'[n].PriorityLevel = get_user_priority(priority_users, rows'[n].DiscordID)
       /\ priority_users' # priority_users => rows' = rows
       /\ \A r \in Resources : \A a, b \in ActiveRows(rows', r) :
             (\/ rows'[a].PriorityLevel > rows'[b].PriorityLevel
              \/ /\ rows'[a].PriorityLevel = rows'[b].PriorityLevel
                 /\ rows'[a].RequestTimestamp < rows'[b].RequestTimestamp)
                => rows'[a].QueuePosition < rows'[b].QueuePosition]_vars

\* a request submitted with high priority by a user who has since lost it is
\* still ahead of an earlier default-priority request after the recompute of
\* a third submission
C17_StoredPriorityOutlivesDirectory ==
    /\ lastOp.op = "submit" /\ lastOp.resp = "ok"
    /\ \E r \in Resources : \E a, b \in ActiveRows(rows, r) :
          /\ a # lastOp.row /\ b # lastOp.row
          /\ rows[a].PriorityLevel = HIGH_PRIORITY
          /\ get_user_priority(priority_users, rows[a].DiscordID) = DEFAULT_PRIORITY
          /\ rows[b].PriorityLevel = DEFAULT_PRIORITY
          /\ rows[b].RequestTimestamp < rows[a].RequestTimestamp
          /\ rows[a].QueuePosition < rows[b].QueuePosition

\* C18: a submission whose append fails max_retries times or more is
\* answered as failed: the sheet is left exactly as it was (no row, no
\* position rewritten), no cell is written and no row or position is
\* reported.
C18_FailedAppendPlacesNothing ==
    [][\A f \in flows : \A failures \in Failures : \A applied \in Applied(failures) :
          (/\ failures >= max_retries
           /\ \/ /\ SessionIsOf(f)
                 /\ \E now \in Timestamps :
                       process_blue_request(f, now, failures, applied, {})
              \/ \E now \in Timestamps :
                    wait_for_screenshot_and_register(f, TRUE, now, failures, applied))
          => /\ lastOp'.resp = "failed"
             /\ lastOp'.row = 0 /\ lastOp'.writes = 0
             /\ rows' = rows]_vars

\* C20: every handled user action is answered: a verifier's reaction on a
\* message awaiting approval, and every submission, cancel, issue, return
\* and complete, ends with a response to its actor, whether or not the store
\* answered.
C20_EveryActionAnswered ==
    [][/\ \A msg \in PENDING_REQUESTS : \A store_up \in BOOLEAN :
             on_reaction_add(msg, Verifier, store_up) => lastOp'.resp # "none"
       /\ lastOp'.op \in {"submit", "submit_rare", "cancel", "issue", "return",
                          "complete"}
             => lastOp'.resp # "none"]_vars

\* C19: whenever no task is inside a block of sheets_lock the lock is free
\* (every way out of a block has released it), and a task that waits for the
\* lock gets it.
C19_LockDiscipline ==
    /\ []((\A t \in LockTasks : lockTasks[t].pc # "sending") => ~sheets_lock)
    /\ \A t \in LockTasks :
          (lockTasks[t].pc = "waiting") ~> (lockTasks[t].pc # "waiting")

\* a task that had to wait has left its block through an exception of a sheet
\* call, and the next waiter is still in the queue of the lock now free
C19_ExceptionExitWithWaiter ==
    \E t \in LockTasks :
        /\ lockTasks[t].pc = "idle" /\ lockTasks[t].path = "store_exception"
        /\ lockWaiters # <<>> /\ ~sheets_lock
        /\ \E u \in LockTasks : lockTasks[u].path = "not_found"
                                   /\ lockTasks[u].pc = "idle"

\* C21: no two rows of the sheet carry the same request id (RowID): one
\* submission leaves at most one row.
C21_OneRowPerSubmission ==
    \A a, b \in 1..Len(rows) : rows[a].RowID = rows[b].RowID => a = b

\* C22: a submission whose quantity text is not a positive integer, and an
\* issue or a return whose amount text is not one of 1..max (max being the
\* remaining, resp. the issued, quantity the form was opened with), is
\* rejected on the spot: the sheet is left as it is, nothing is written or
\* recomputed, and the submission goes no further.
C22_InvalidQuantityRejected ==
    [][/\ \A f \in flows : \A text \in AmountTexts :
             (/\ on_submit(f, text) /\ SessionIsOf(f)
              /\ text \notin {IntText[n] : n \in 1..MaxAmount})
             => /\ rows' = rows
                /\ flows' = flows \ {f}
                /\ lastOp'.writes = 0
       /\ \A v \in actionViews : \A text \in AmountTexts :
             (/\ issue_quantity(v, text) /\ v.remaining > 0
              /\ text \notin {IntText[n] : n \in 1..v.remaining})
             => /\ rows' = rows
                /\ lastOp'.resp = "invalid_qty" /\ lastOp'.writes = 0
                /\ ~lastOp'.locked
       /\ \A v \in actionViews : \A text \in AmountTexts :
             (/\ unissue_quantity(v, text) /\ v.issued > 0
              /\ text \notin {IntText[n] : n \in 1..v.issued})
             => /\ rows' = rows
                /\ lastOp'.resp = "invalid_qty" /\ lastOp'.writes = 0
                /\ ~lastOp'.locked]_vars

\* a return form opened on a request with something issued has just turned
\* down its amount, and an issue form could still be given too much
C22_ReturnAmountTurnedDown ==
    /\ lastOp.op = "return" /\ lastOp.resp = "invalid_qty"
    /\ \E v \in actionViews :
          v.row_number = lastOp.row /\ v.issued > 0 /\ v.issued < MaxAmount

\* C23: a return of an accepted amount for an Active request leaves it with
\* issued = max(0, issued - amount) and remaining = requested - issued, and
\* with the status and the queue position it had; for a request that is not
\* Active the return is turned down and nothing is written.
C23_ReturnLowersIssued ==
    [][\A v \in actionViews : \A amount \in 1..MaxAmount :
          (/\ unissue_quantity(v, IntText[amount])
           /\ amount <= v.issued)
          => LET n == v.row_number
             IN IF rows[n].Status = "active"
                THEN /\ rows'[n].IssuedQuantity
                           = Max(0, rows[n].IssuedQuantity - amount)
                     /\ rows'[n].Remaining
                           = rows[n].Quantity - rows'[n].IssuedQuantity
                     /\ rows'[n].Status = rows[n].Status
                     /\ rows'[n].QueuePosition = rows[n].QueuePosition
                ELSE /\ rows' = rows
                     /\ lastOp'.resp # "ok"]_vars

\* C24: every Blue request has approval "n/a" and is not pending approval;
\* only Purple requests are ever pending or carry the approval awaiting,
\* approved or denied.
C24_ApprovalIsForPurple ==
    \A n \in 1..Len(rows) :
       /\ rows[n].ResourceGrade = "Blue"
             => rows[n].PurpleApproval = "n/a" /\ rows[n].Status # "pending"
       /\ (\/ rows[n].Status = "pending"
           \/ rows[n].PurpleApproval \in {"awaiting", "approved", "denied"})
             => rows[n].ResourceGrade = "Purple"

\* a Blue request in the sheet next to an approved and a denied Purple one
C24_BlueBesideSettledPurple ==
    \E a, b, c \in 1..Len(rows) :
       /\ rows[a].ResourceGrade = "Blue" /\ rows[a].Status = "active"
       /\ rows[b].PurpleApproval = "approved"
       /\ rows[c].PurpleApproval = "denied"

C26_SubmitAppendsOneRow ==
    [][\A f \in flows : \A failures \in Failures : \A applied \in Applied(failures) :
          (/\ \/ /\ SessionIsOf(f)
                 /\ \E now \in Timestamps :
                       process_blue_request(f, now, failures, applied, {})
              \/ \E now \in Timestamps :
                    wait_for_screenshot_and_register(f, TRUE, now, failures, applied)
           /\ lastOp'.resp = "ok")
          => /\ Len(rows') = Len(rows) + 1
             /\ \A n \in 1..Len(rows) :
                   rows'[n] = [rows[n] EXCEPT !.QueuePosition = rows'[n].QueuePosition]]_vars

\* C27: a recompute for a resource writes nothing but the queue position of
\* rows of that resource.  Of the sheet as it is, a recompute for any
\* resource leaves every row of another resource as it is and every row's
\* other cells alone; and in every step, the rows written or added are all
\* of one resource, and every row but the one the handler acted on differs in
\* its queue position at most.
C27_RecomputeStaysInResource ==
    [][/\ \A r \in Resources :
             LET out == recompute_queue_positions(rows, r)
             IN /\ Len(out) = Len(rows)
                /\ \A n \in 1..Len(rows) :
                      /\ out[n] = [rows[n] EXCEPT !.QueuePosition = out[n].QueuePosition]
                      /\ rows[n].ResourceName # r => out[n] = rows[n]
       /\ \A a, b \in 1..Len(rows') :
             (/\ a > Len(rows) \/ rows'[a] # rows[a]
              /\ b > Len(rows) \/ rows'[b] # rows[b])
             => rows'[a].ResourceName = rows'[b].ResourceName
       /\ \A n \in 1..Len(rows) :
             n # lastOp'.row
             => rows'[n] = [rows[n] EXCEPT !.QueuePosition = rows'[n].QueuePosition]]_vars

\* a request has just been cancelled and the recompute has run for its
\* resource, while a request for another resource holds a queue position
C27_RecomputeBesideOtherResource ==
    /\ lastOp.op = "cancel" /\ lastOp.resp = "cancelled" /\ lastOp.pre = "active"
    /\ \E c \in 1..Len(rows) :
          /\ rows[c].ResourceName # rows[lastOp.row].ResourceName
          /\ rows[c].Status \in {"active", "pending"}
          /\ rows[c].QueuePosition = 1

\* C28: get_row never raises.  It returns None when the row number is None,
\* is not an integer or is below 1, when no row is there, and when the read
\* from the store fails; otherwise it returns the row's fields.  It writes
\* nothing.
C28_GetRowNeverRaises ==
    [][\A arg \in RowArgs : \A store_up \in BOOLEAN :
          get_row_call(arg, store_up)
          => /\ lastOp'.resp # "raised"
             /\ lastOp'.resp = "fields"
                   <=> (arg.kind = "int" /\ arg.val \in 1..Len(rows) /\ store_up)
             /\ lastOp'.resp = "null"
                   <=> (\/ arg.kind # "int"
                        \/ arg.val \notin 1..Len(rows)
                        \/ ~store_up)
             /\ rows' = rows]_vars

\* the caller has just got None for a row that is in the sheet: the read
\* from the store failed
C28_NoneForUnreadableRow ==
    /\ lastOp.op = "get_row" /\ lastOp.resp = "null"
    /\ lastOp.row \in 1..Len(rows)

\* C30: the directory answers get(user) with the level of the latest set
\* that named the user, unless a later remove named them or a later clear
\* came, and with DEFAULT_PRIORITY otherwise.  Step by step: a set gives the
\* users it names its level, a remove gives those it names the default, a
\* clear gives everyone the default; the users an operation does not name
\* keep their level, and no other operation changes any level.  A submission
\* stores the level the directory answers at that moment.
C30_DirectoryFollowsCalls ==
    [][/\ \A user_ids \in UserSets : \A priority \in Levels :
             call_set_multiple_users_priority(user_ids, priority)
             => \A u \in Users :
                   get_user_priority(priority_users', u)
                      = IF u \in user_ids THEN priority
                        ELSE get_user_priority(priority_users, u)
       /\ \A user_ids \in UserSets :
             call_remove_multiple_users_priority(user_ids)
             => \A u \in Users :
                   get_user_priority(priority_users', u)
                      = IF u \in user_ids THEN DEFAULT_PRIORITY
                        ELSE get_user_priority(priority_users, u)
       /\ call_clear_all_priorities
             => \A u \in Users : get_user_priority(priority_users', u) = DEFAULT_PRIORITY
       /\ lastOp'.op \notin {"set_priority", "remove_priority", "clear_priority"}
             => \A u \in Users :
                   get_user_priority(priority_users', u)
                      = get_user_priority(priority_users, u)
       /\ Len(rows') > Len(rows)
             => rows'[Len(rows')].PriorityLevel
                   = get_user_priority(priority_users, rows'[Len(rows')].DiscordID)]_vars

\* one user holds the admin level; another, whose request was submitted at
\* the high level, has been removed since and is answered the default
C30_RemovedBesideAdmin ==
    \E u, w \in Users :
       /\ get_user_priority(priority_users, u) = ADMIN_PRIORITY
       /\ get_user_priority(priority_users, w) = DEFAULT_PRIORITY
       /\ w \notin DOMAIN priority_users
       /\ \E n \in 1..Len(rows) :
             rows[n].DiscordID = w /\ rows[n].PriorityLevel = HIGH_PRIORITY

\* C31: a recompute for a resource, all its writes applied, leaves the
\* active and pending rows of the resource with the positions 1..N, in the
\* order of priority (high first), then timestamp (early first), then row
\* order; with no such row it writes nothing.  This holds of a recompute of
\* the sheet as it is, for every resource, and of the sheet that a common
\* submission leaves behind (it ends with the recompute of the request's
\* resource).
C31_RecomputeNumbersInOrder ==
    [][/\ \A r \in Resources :
             LET out == recompute_queue_positions(rows, r)
                 live == {n \in 1..Len(rows) : /\ rows[n].ResourceName = r
                                               /\ rows[n].Status \in {"active", "pending"}}
             IN /\ {out[n].QueuePosition : n \in live} = 1..Cardinality(live)
                /\ \A a, b \in live :
                      out[a].QueuePosition < out[b].QueuePosition
                         <=> \/ rows[a].PriorityLevel > rows[b].PriorityLevel
                             \/ /\ rows[a].PriorityLevel = rows[b].PriorityLevel
                                /\ rows[a].RequestTimestamp < rows[b].RequestTimestamp
                             \/ /\ rows[a].PriorityLevel = rows[b].PriorityLevel
                                /\ rows[a].RequestTimestamp = rows[b].RequestTimestamp
                                /\ a < b
                /\ live = {} => RecomputeWrites(rows, r) = 0 /\ out = rows
       /\ (lastOp'.op = "submit" /\ lastOp'.resp = "ok")
             => LET r == rows'[lastOp'.row].ResourceName
                    live == {n \in 1..Len(rows') :
                                /\ rows'[n].ResourceName = r
                                /\ rows'[n].Status \in {"active", "pending"}}
                IN {rows'[n].QueuePosition : n \in live} = 1..Cardinality(live)]_vars

\* three requests for one resource are numbered 1, 2, 3: the second and the
\* third carry the same priority and the same timestamp and stand in row
\* order, the first has the higher priority and stands before both
C31_TieBrokenByRowOrder ==
    \E a, b, c \in 1..Len(rows) :
       /\ b < c /\ c < a
       /\ rows[a].ResourceName = rows[b].ResourceName
       /\ rows[b].ResourceName = rows[c].ResourceName
       /\ rows[a].PriorityLevel > rows[b].PriorityLevel
       /\ rows[b].PriorityLevel = rows[c].PriorityLevel
       /\ rows[b].RequestTimestamp = rows[c].RequestTimestamp
       /\ rows[a].QueuePosition = 1
       /\ rows[b].QueuePosition = 2
       /\ rows[c].QueuePosition = 3

\* C32: a write to the sheet that fails inside an operation reaches the
\* caller as "not applied": a submission during whose recompute a position
\* write fails is answered as failed, not as accepted.
C32_FailedWriteSurfaces ==
    [][\A f \in flows : \A lost \in SUBSET (1..(Len(rows) + 1)) :
          (/\ SessionIsOf(f)
           /\ \E now \in Timestamps : process_blue_request(f, now, 0, 0, lost)
           /\ lost \cap Candidates(rows', f.resource) # {})
          => lastOp'.resp = "failed"]_vars

\* C33: an update of several fields that fails on one of its cell writes
\* leaves the row with none of the fields changed: a cancel that fails
\* leaves the sheet as it was.
C33_UpdateIsAllOrNothing ==
    [][\A rownum \in statusButtons : \A cells \in 0..CancelCells :
          (/\ status_cancel_callback(rownum, rows[rownum].DiscordID, cells)
           /\ lastOp'.resp = "failed")
          => rows' = rows]_vars

\* C34: a submission flow deletes the user's session only while the session
\* is its own: a step of a flow (its menu's timeout, its submission, its
\* evidence wait, its end after the notice) that changes the session entry
\* of its user finds there the flow's own session id.
C34_FlowRemovesOwnSessionOnly ==
    [][\A f \in flows :
          (/\ \/ on_timeout(f)
              \/ \E now \in Timestamps : process_blue_request(f, now, 0, 0, {})
              \/ process_blue_request_wake(f)
              \/ \E registered \in BOOLEAN, now \in Timestamps :
                    wait_for_screenshot_and_register(f, registered, now, 0, 0)
           /\ ACTIVE_SESSIONS'[f.user] # ACTIVE_SESSIONS[f.user])
          => ACTIVE_SESSIONS[f.user] = f.session_id]_vars

\* C35: a row is appended only by a flow that still owns the open session
\* of its user: at every append, common or rare, the session store holds
\* the flow's session id for the requester.
C35_AppendOnlyWithOwnSession ==
    [][\A f \in flows :
          (/\ \/ \E now \in Timestamps : process_blue_request(f, now, 0, 0, {})
              \/ \E registered \in BOOLEAN, now \in Timestamps :
                    wait_for_screenshot_and_register(f, registered, now, 0, 0)
           /\ Len(rows') > Len(rows))
          => ACTIVE_SESSIONS[f.user] = f.session_id]_vars

\* C36: between the handlers, every Active row holds a queue position of 1
\* or more, never an empty one, also when a position write of a submission's
\* recompute has failed.
C36_ActiveHasPosition ==
    \A n \in 1..Len(rows) :
       rows[n].Status = "active" => rows[n].QueuePosition >= 1

\* C37: every Completed row has its issued quantity equal to the requested
\* one and nothing remaining, in every state.
C37_CompletedIsFullyIssued ==
    \A n \in 1..Len(rows) :
       rows[n].Status = "completed"
          => /\ rows[n].IssuedQuantity = rows[n].Quantity
             /\ rows[n].Remaining = 0

\* C38: each of the issues that staff members send from views on the same
\* snapshot of an Active request, with an amount the form accepts, adds its
\* amount to the issued quantity the row holds then, capped at the requested
\* quantity: after the amounts a and b the row holds min(requested, initial +
\* a + b), never more than requested, and it is Completed exactly when the two
\* are equal.
C38_ConcurrentIssuesAddUp ==
    [][\A v \in actionViews : \A amount \in 1..MaxAmount :
          (/\ issue_quantity(v, IntText[amount])
           /\ rows[v.row_number].Status = "active"
           /\ amount <= v.remaining)
          => /\ rows'[v.row_number].IssuedQuantity
                   = Min(rows[v.row_number].Quantity,
                         rows[v.row_number].IssuedQuantity + amount)
             /\ rows'[v.row_number].IssuedQuantity <= rows'[v.row_number].Quantity
             /\ rows'[v.row_number].Status = "completed"
                   <=> rows'[v.row_number].IssuedQuantity
                          = rows'[v.row_number].Quantity]_vars

\* C29: an append_row makes at most max_retries calls of sheet.append_row:
\* one more than the calls that failed when one of the first max_retries
\* succeeds (and then it returns), and max_retries when all of them fail
\* (and then it raises and the submission is answered as failed).
C29_AppendIsBounded ==
    [][\A f \in flows : \A failures \in Failures : \A applied \in Applied(failures) :
          (\/ /\ SessionIsOf(f)
              /\ \E now \in Timestamps :
                    process_blue_request(f, now, failures, applied, {})
           \/ \E now \in Timestamps :
                 wait_for_screenshot_and_register(f, TRUE, now, failures, applied))
          => /\ appendCalls' <= max_retries
             /\ appendCalls' = Min(failures + 1, max_retries)
             /\ (lastOp'.resp = "failed") <=> (failures >= max_retries)
             /\ (lastOp'.resp = "ok") <=> (failures < max_retries)]_vars

\* a submission has just been answered as failed after max_retries calls
C29_GaveUpAfterLastRetry ==
    /\ appendCalls = max_retries
    /\ lastOp.op \in {"submit", "submit_rare"} /\ lastOp.resp = "failed"

====
